---- MODULE Spec2Model ----
(***************************************************************************)
(* Model of the veterinary clinic record keeper (sprint8.py): the SQLite   *)
(* store behind DatabaseManager (tables propietarios, mascotas, consultas) *)
(* and the SistemaVeterinaria workflows built on it.                       *)
(*                                                                         *)
(* A text value is a sequence of one-character strings; the Python value   *)
(* None (SQL NULL) is the constant None below.  A row is a record with one *)
(* field per column, a table is the set of its rows.  The field mappings   *)
(* handed to the update operations range over the data columns of the      *)
(* table (the columns the workflows ever put into new_data).               *)
(***************************************************************************)
EXTENDS Integers, Sequences, FiniteSets, TLC

\* ------------------------------------------------------------------ bounds
\* number of ids the AUTOINCREMENT counter of each table may hand out
MaxPropietarios == 2
MaxMascotas == 1
MaxConsultas == 1
\* number of rows the DatabaseManager operations may insert in total
MaxRows == 3
\* number of pets registered through the menu (registrar_mascota)
MaxRegistros == 2
\* number of rows the menu workflows may insert in total
MaxFilas == 4

\* ------------------------------------------------------------ input values
None == <<"None">>

NombreValues == { <<"a","b">>, <<"A","b">>, <<"a","_">> }
\* what the user may type at a name prompt, after strip(); <<>> is a blank line
NombreTyped == NombreValues \cup { <<"%">>, <<>> }
TelefonoValues == { <<"1">> }
DireccionValues == { <<"c">> }
MascotaNombreValues == { <<"R">> }
EspecieValues == { <<"d">> }
RazaValues == { <<"l">> }
EdadValues == { 0, 3 }
MotivoValues == { <<"m">> }
DiagnosticoValues == { <<"k">> }
\* datetime.date values
FechaValues == { [year |-> 2024, month |-> 5, day |-> 1],
                 [year |-> 2025, month |-> 6, day |-> 5] }

\* the ids a caller may pass: every id a table may hand out
PropietarioIds == 1..MaxPropietarios
MascotaIds == 1..MaxMascotas
ConsultaIds == 1..MaxConsultas
\* the pet ids the menu session may hand out
MascotaIdsSistema == 1..MaxRegistros

\* ------------------------------------------------------------------- state
VARIABLES propietarios, mascotas, consultas, seq, last

vars == <<propietarios, mascotas, consultas, seq, last>>

\* sqlite3.connect without "PRAGMA foreign_keys = ON": SQLite parses the
\* FOREIGN KEY ... ON DELETE CASCADE clauses but does not enforce them.
foreign_keys == FALSE

\* ---------------------------------------------------------------- helpers
Min(S) == CHOOSE x \in S : \A y \in S : x <= y

\* the new_data dictionaries: every restriction of a full assignment of the
\* data columns to one of the key sets
Mappings(full, keysets) ==
    { [c \in ks |-> f[c]] : f \in full, ks \in keysets }

\* date.strftime("%Y-%m-%d"): the text stored in consultas.fecha
strftime(d) == <<d.year, d.month, d.day>>

\* datetime.strptime(text, "%Y-%m-%d").date() in Consulta.__init__
strptime(t) == [year |-> t[1], month |-> t[2], day |-> t[3]]

\* ASCII case folding used by the LIKE operator
Lower(c) == IF c = "A" THEN "a" ELSE IF c = "B" THEN "b" ELSE c

\* SQLite "text LIKE pattern" (no ESCAPE clause): % matches any run of
\* characters, _ any single character, letters compare case-insensitively
RECURSIVE Like(_, _)
Like(text, pattern) ==
    IF pattern = <<>> THEN text = <<>>
    ELSE IF Head(pattern) = "%"
         THEN \E k \in 0..Len(text) :
                 Like(SubSeq(text, k + 1, Len(text)), Tail(pattern))
    ELSE IF text = <<>> THEN FALSE
    ELSE IF Head(pattern) = "_" THEN Like(Tail(text), Tail(pattern))
    ELSE Lower(Head(text)) = Lower(Head(pattern))
         /\ Like(Tail(text), Tail(pattern))

\* ApplyData that rebuilds the row from the supplied fields alone
ApplyDataReplace(row, data) ==
    [c \in DOMAIN row |-> IF c \in DOMAIN data THEN data[c]
                          ELSE IF c = "id" THEN row[c] ELSE None]

\* "UPDATE t SET k1 = ?, ... WHERE id = ?" on one row
ApplyData(row, data) ==
    [c \in DOMAIN row |-> IF c \in DOMAIN data THEN data[c] ELSE row[c]]

UpdateRows(rows, id, data) ==
    { IF r.id = id THEN ApplyData(r, data) ELSE r : r \in rows }

\* cursor.rowcount of an UPDATE / DELETE ... WHERE id = ?
RowCount(rows, id) == Cardinality({ r \in rows : r.id = id })

\* ----------------------------------------------------------------- schema
\* propietarios.nombre TEXT NOT NULL UNIQUE
NombreUnique(rows) ==
    \A r1, r2 \in rows : r1.nombre = r2.nombre => r1.id = r2.id

Result(rows, ret, err) == [rows |-> rows, ret |-> ret, err |-> err]

\* NextId of an INTEGER PRIMARY KEY column without AUTOINCREMENT: one more than
\* the largest id stored
NextIdRowid(n, rows) ==
    IF rows = {} THEN 1
    ELSE 1 + (CHOOSE x \in { r.id : r \in rows } : \A r \in rows : r.id <= x)

\* id INTEGER PRIMARY KEY AUTOINCREMENT: one more than the largest id the
\* table ever handed out (n, kept in sqlite_sequence)
NextId(n, rows) == n + 1

\* ------------------------------------------------------- CRUD Propietario
\* InsertPropietario on a table whose nombre column is not UNIQUE
InsertPropietarioNoUnique(rows, n, nombre, telefono, direccion) ==
    IF nombre = None THEN Result(rows, FALSE, "NOT NULL")
    ELSE Result(rows \cup { [id |-> n + 1, nombre |-> nombre,
                             telefono |-> telefono, direccion |-> direccion] },
                TRUE, "")

InsertPropietario(rows, n, nombre, telefono, direccion) ==
    IF nombre = None THEN Result(rows, FALSE, "NOT NULL")
    ELSE IF \E r \in rows : r.nombre = nombre THEN Result(rows, FALSE, "UNIQUE")
    ELSE Result(rows \cup { [id |-> NextId(n, rows), nombre |-> nombre,
                             telefono |-> telefono, direccion |-> direccion] },
                TRUE, "")

GetPropietarioByNombre(rows, nombre) ==
    LET hits == { r \in rows : Like(r.nombre, nombre) }
    IN  IF hits = {} THEN {}
        ELSE { r \in hits : r.id = Min({ h.id : h \in hits }) }

GetPropietarioById(rows, id) == { r \in rows : r.id = id }

\* UpdatePropietario on a table whose nombre column is not UNIQUE
UpdatePropietarioNoUnique(rows, id, data) ==
    IF DOMAIN data = {} THEN Result(rows, FALSE, "syntax")
    ELSE IF RowCount(rows, id) = 0 THEN Result(rows, FALSE, "")
    ELSE LET new == UpdateRows(rows, id, data)
         IN  IF \E r \in new : r.nombre = None
             THEN Result(rows, FALSE, "NOT NULL")
             ELSE Result(new, TRUE, "")

UpdatePropietario(rows, id, data) ==
    IF DOMAIN data = {} THEN Result(rows, FALSE, "syntax")
    ELSE IF RowCount(rows, id) = 0 THEN Result(rows, FALSE, "")
    ELSE LET new == UpdateRows(rows, id, data)
         IN  IF \E r \in new : r.nombre = None
             THEN Result(rows, FALSE, "NOT NULL")
             ELSE IF ~NombreUnique(new) THEN Result(rows, FALSE, "UNIQUE")
             ELSE Result(new, TRUE, "")

DeletePropietario(rows, id) ==
    Result({ r \in rows : r.id # id }, RowCount(rows, id) > 0, "")

\* rows of a child table removed by ON DELETE CASCADE when the parent rows
\* with the ids gone are deleted; none unless foreign keys are enforced
Cascade(children, fk, gone) ==
    IF foreign_keys THEN { c \in children : c[fk] \notin gone } ELSE children

\* ----------------------------------------------------------- CRUD Mascota
InsertMascota(rows, owners, n, nombre, especie, raza, edad, id_propietario) ==
    IF nombre = None THEN Result(rows, FALSE, "NOT NULL")
    ELSE IF foreign_keys /\ id_propietario \notin { o.id : o \in owners }
         THEN Result(rows, FALSE, "FOREIGN KEY")
    ELSE Result(rows \cup { [id |-> NextId(n, rows), nombre |-> nombre,
                             especie |-> especie, raza |-> raza, edad |-> edad,
                             id_propietario |-> id_propietario] },
                TRUE, "")

\* SELECT ... FROM mascotas m JOIN propietarios p ON m.id_propietario = p.id
JoinMascotas(rows, owners) ==
    { [id |-> m.id, nombre |-> m.nombre, especie |-> m.especie,
       raza |-> m.raza, edad |-> m.edad, propietario_id |-> m.id_propietario,
       propietario_nombre |-> p.nombre] :
      <<m, p>> \in { x \in rows \X owners : x[1].id_propietario = x[2].id } }

GetAllMascotas(rows, owners) == JoinMascotas(rows, owners)

GetMascotaById(rows, owners, id) ==
    { m \in JoinMascotas(rows, owners) : m.id = id }

\* UpdateMascota that treats an empty new_data as an UPDATE setting nothing
UpdateMascotaEmptyOk(rows, owners, id, data) ==
    IF RowCount(rows, id) = 0 THEN Result(rows, FALSE, "")
    ELSE LET new == UpdateRows(rows, id, data)
         IN  IF \E r \in new : r.nombre = None
             THEN Result(rows, FALSE, "NOT NULL")
             ELSE Result(new, TRUE, "")

UpdateMascota(rows, owners, id, data) ==
    IF DOMAIN data = {} THEN Result(rows, FALSE, "syntax")
    ELSE IF RowCount(rows, id) = 0 THEN Result(rows, FALSE, "")
    ELSE LET new == UpdateRows(rows, id, data)
         IN  IF \E r \in new : r.nombre = None
             THEN Result(rows, FALSE, "NOT NULL")
             ELSE IF foreign_keys
                     /\ \E r \in new : r.id_propietario \notin { o.id : o \in owners }
             THEN Result(rows, FALSE, "FOREIGN KEY")
             ELSE Result(new, TRUE, "")

DeleteMascota(rows, id) ==
    Result({ r \in rows : r.id # id }, RowCount(rows, id) > 0, "")

\* ---------------------------------------------------------- CRUD Consulta
InsertConsulta(rows, pets, n, fecha, motivo, diagnostico, id_mascota) ==
    IF foreign_keys /\ id_mascota \notin { m.id : m \in pets }
    THEN Result(rows, FALSE, "FOREIGN KEY")
    ELSE Result(rows \cup { [id |-> NextId(n, rows), fecha |-> strftime(fecha),
                             motivo |-> motivo, diagnostico |-> diagnostico,
                             id_mascota |-> id_mascota] },
                TRUE, "")

\* SELECT ... FROM consultas c JOIN mascotas m ON c.id_mascota = m.id
JoinConsultas(rows, pets) ==
    { [id |-> c.id, fecha |-> strptime(c.fecha), motivo |-> c.motivo,
       diagnostico |-> c.diagnostico, mascota_id |-> c.id_mascota,
       mascota_nombre |-> m.nombre] :
      <<c, m>> \in { x \in rows \X pets : x[1].id_mascota = x[2].id } }

GetConsultasByMascotaId(rows, pets, id) ==
    { c \in JoinConsultas(rows, pets) : c.mascota_id = id }

GetConsultaById(rows, pets, id) ==
    { c \in JoinConsultas(rows, pets) : c.id = id }

\* new_data['fecha'] is a datetime.date: replaced by its ISO text
FechaToText(data) ==
    [c \in DOMAIN data |-> IF c = "fecha" THEN strftime(data[c]) ELSE data[c]]

UpdateConsulta(rows, pets, id, data) ==
    IF DOMAIN data = {} THEN Result(rows, FALSE, "syntax")
    ELSE IF RowCount(rows, id) = 0 THEN Result(rows, FALSE, "")
    ELSE LET new == UpdateRows(rows, id, FechaToText(data))
         IN  IF foreign_keys
                /\ \E r \in new : r.id_mascota \notin { m.id : m \in pets }
             THEN Result(rows, FALSE, "FOREIGN KEY")
             ELSE Result(new, TRUE, "")

DeleteConsulta(rows, id) ==
    Result({ r \in rows : r.id # id }, RowCount(rows, id) > 0, "")

\* ------------------------------------------------------ new_data mappings
PropietarioData ==
    Mappings([nombre : NombreValues, telefono : TelefonoValues,
              direccion : DireccionValues],
             { {}, {"nombre"}, {"telefono"}, {"direccion"},
               {"nombre", "telefono"}, {"nombre", "telefono", "direccion"} })

MascotaData ==
    Mappings([nombre : MascotaNombreValues, especie : EspecieValues,
              raza : RazaValues, edad : EdadValues,
              id_propietario : PropietarioIds],
             { {}, {"nombre"}, {"especie"}, {"raza"}, {"edad"},
               {"id_propietario"}, {"edad", "id_propietario"},
               {"nombre", "especie", "raza", "edad", "id_propietario"} })

ConsultaData ==
    Mappings([fecha : FechaValues, motivo : MotivoValues,
              diagnostico : DiagnosticoValues],
             { {}, {"fecha"}, {"motivo"}, {"diagnostico"},
               {"fecha", "motivo", "diagnostico"} })

\* ---------------------------------------------------------------- actions
\* rows inserted so far: the AUTOINCREMENT counters never go down
Inserted == seq.propietarios + seq.mascotas + seq.consultas

Called(op, ret, err) == [op |-> op, ret |-> ret, err |-> err]

Init ==
    /\ propietarios = {}
    /\ mascotas = {}
    /\ consultas = {}
    /\ seq = [propietarios |-> 0, mascotas |-> 0, consultas |-> 0]
    /\ last = Called("init", TRUE, "")

insert_propietario(nombre, telefono, direccion) ==
    LET res == InsertPropietario(propietarios, seq.propietarios,
                                 nombre, telefono, direccion)
    IN  /\ res.ret => seq.propietarios < MaxPropietarios /\ Inserted < MaxRows
        /\ propietarios' = res.rows
        /\ seq' = IF res.ret
                  THEN [seq EXCEPT !.propietarios = seq.propietarios + 1]
                  ELSE seq
        /\ last' = Called("insert_propietario", res.ret, res.err)
        /\ UNCHANGED <<mascotas, consultas>>

update_propietario(id, data) ==
    LET res == UpdatePropietario(propietarios, id, data)
    IN  /\ propietarios' = res.rows
        /\ last' = Called("update_propietario", res.ret, res.err)
        /\ UNCHANGED <<mascotas, consultas, seq>>

delete_propietario(id) ==
    LET res == DeletePropietario(propietarios, id)
        pets == Cascade(mascotas, "id_propietario", {id})
    IN  /\ propietarios' = res.rows
        /\ mascotas' = pets
        /\ consultas' = Cascade(consultas, "id_mascota",
                                 { m.id : m \in mascotas \ pets })
        /\ last' = Called("delete_propietario", res.ret, res.err)
        /\ UNCHANGED seq

insert_mascota(nombre, especie, raza, edad, id_propietario) ==
    LET res == InsertMascota(mascotas, propietarios, seq.mascotas,
                             nombre, especie, raza, edad, id_propietario)
    IN  /\ res.ret => seq.mascotas < MaxMascotas /\ Inserted < MaxRows
        /\ mascotas' = res.rows
        /\ seq' = IF res.ret
                  THEN [seq EXCEPT !.mascotas = seq.mascotas + 1]
                  ELSE seq
        /\ last' = Called("insert_mascota", res.ret, res.err)
        /\ UNCHANGED <<propietarios, consultas>>

update_mascota(id, data) ==
    LET res == UpdateMascota(mascotas, propietarios, id, data)
    IN  /\ mascotas' = res.rows
        /\ last' = Called("update_mascota", res.ret, res.err)
        /\ UNCHANGED <<propietarios, consultas, seq>>

delete_mascota(id) ==
    LET res == DeleteMascota(mascotas, id)
    IN  /\ mascotas' = res.rows
        /\ consultas' = Cascade(consultas, "id_mascota", {id})
        /\ last' = Called("delete_mascota", res.ret, res.err)
        /\ UNCHANGED <<propietarios, seq>>

insert_consulta(fecha, motivo, diagnostico, id_mascota) ==
    LET res == InsertConsulta(consultas, mascotas, seq.consultas,
                              fecha, motivo, diagnostico, id_mascota)
    IN  /\ res.ret => seq.consultas < MaxConsultas /\ Inserted < MaxRows
        /\ consultas' = res.rows
        /\ seq' = IF res.ret
                  THEN [seq EXCEPT !.consultas = seq.consultas + 1]
                  ELSE seq
        /\ last' = Called("insert_consulta", res.ret, res.err)
        /\ UNCHANGED <<propietarios, mascotas>>

update_consulta(id, data) ==
    LET res == UpdateConsulta(consultas, mascotas, id, data)
    IN  /\ consultas' = res.rows
        /\ last' = Called("update_consulta", res.ret, res.err)
        /\ UNCHANGED <<propietarios, mascotas, seq>>

delete_consulta(id) ==
    LET res == DeleteConsulta(consultas, id)
    IN  /\ consultas' = res.rows
        /\ last' = Called("delete_consulta", res.ret, res.err)
        /\ UNCHANGED <<propietarios, mascotas, seq>>

Next ==
    \/ \E n \in NombreValues \cup {None}, t \in TelefonoValues,
          d \in DireccionValues : insert_propietario(n, t, d)
    \/ \E id \in PropietarioIds, data \in PropietarioData :
          update_propietario(id, data)
    \/ \E id \in PropietarioIds : delete_propietario(id)
    \/ \E n \in MascotaNombreValues \cup {None}, e \in EspecieValues,
          r \in RazaValues, a \in EdadValues, o \in PropietarioIds :
          insert_mascota(n, e, r, a, o)
    \/ \E id \in MascotaIds, data \in MascotaData : update_mascota(id, data)
    \/ \E id \in MascotaIds : delete_mascota(id)
    \/ \E f \in FechaValues, m \in MotivoValues, k \in DiagnosticoValues,
          p \in MascotaIds : insert_consulta(f, m, k, p)
    \/ \E id \in ConsultaIds, data \in ConsultaData : update_consulta(id, data)
    \/ \E id \in ConsultaIds : delete_consulta(id)

Spec == Init /\ [][Next]_vars

\* ------------------------------------------------------ SistemaVeterinaria
\* UIUtils.get_int_input followed by "while edad_mascota < 0": the entries
\* typed at the age prompt are read until one is not negative
FirstNonNegative(entries) ==
    entries[Min({ i \in 1..Len(entries) : entries[i] >= 0 })]

EdadEntries == { <<0>>, <<3>>, <<-1, 3>> }

\* GetPropietarioOrCreate that registers the new owner without asking
GetPropietarioOrCreateSinConfirmar(rows, n, owner_name, confirm, nombre, telefono, direccion) ==
    LET found == GetPropietarioByNombre(rows, owner_name)
        existente == GetPropietarioByNombre(rows, nombre)
        res == InsertPropietario(rows, n, nombre, telefono, direccion)
    IN  IF found # {} THEN [rows |-> rows, n |-> n, owner |-> found]
        ELSE IF existente # {} THEN [rows |-> rows, n |-> n, owner |-> existente]
        ELSE [rows |-> res.rows, n |-> IF res.ret THEN n + 1 ELSE n,
              owner |-> res.rows \ rows]

\* _get_propietario_or_create: owner is the set holding the Propietario
\* returned (empty when None is returned), rows and n the table afterwards
GetPropietarioOrCreate(rows, n, owner_name, confirm, nombre, telefono, direccion) ==
    LET found == GetPropietarioByNombre(rows, owner_name)
        existente == GetPropietarioByNombre(rows, nombre)
        res == InsertPropietario(rows, n, nombre, telefono, direccion)
    IN  IF found # {} THEN [rows |-> rows, n |-> n, owner |-> found]
        ELSE IF ~confirm THEN [rows |-> rows, n |-> n, owner |-> {}]
        ELSE IF existente # {} THEN [rows |-> rows, n |-> n, owner |-> existente]
        ELSE [rows |-> res.rows, n |-> IF res.ret THEN n + 1 ELSE n,
              owner |-> res.rows \ rows]

registrar_mascota(nombre_mascota, especie, raza, entries, owner_name, confirm, nombre, telefono, direccion) ==
    LET edad == FirstNonNegative(entries)
        g == GetPropietarioOrCreate(propietarios, seq.propietarios, owner_name,
                                    confirm, nombre, telefono, direccion)
        owner == CHOOSE o \in g.owner : TRUE
        res == InsertMascota(mascotas, g.rows, seq.mascotas, nombre_mascota,
                             especie, raza, edad, owner.id)
    IN  /\ g.n <= MaxPropietarios
        /\ propietarios' = g.rows
        /\ IF g.owner = {}
           THEN /\ mascotas' = mascotas
                /\ seq' = [seq EXCEPT !.propietarios = g.n]
                /\ last' = Called("registrar_mascota", FALSE, "cancelada")
           ELSE /\ res.ret => /\ seq.mascotas < MaxRegistros
                               /\ g.n + seq.mascotas + seq.consultas < MaxFilas
                /\ mascotas' = res.rows
                /\ seq' = [seq EXCEPT !.propietarios = g.n,
                                      !.mascotas = IF res.ret THEN @ + 1 ELSE @]
                /\ last' = Called("registrar_mascota", res.ret,
                                  IF res.ret THEN "" ELSE "no se pudo")
        /\ UNCHANGED consultas

\* the non-blank entries of an update workflow, as the new_data dictionary
NewData(entries) ==
    LET ks == { c \in DOMAIN entries : entries[c] # <<>> }
    IN  [c \in ks |-> entries[c]]

actualizar_propietario(id, nombre, telefono, direccion) ==
    LET propietario == GetPropietarioById(propietarios, id)
        existente == GetPropietarioByNombre(propietarios, nombre)
        new_data == NewData([nombre |-> nombre, telefono |-> telefono,
                             direccion |-> direccion])
        res == UpdatePropietario(propietarios, id, new_data)
    IN  /\ UNCHANGED <<mascotas, consultas, seq>>
        /\ IF propietario = {}
           THEN /\ propietarios' = propietarios
                /\ last' = Called("actualizar_propietario", FALSE, "no encontrado")
           ELSE IF nombre # <<>> /\ \E e \in existente : e.id # id
           THEN /\ propietarios' = propietarios
                /\ last' = Called("actualizar_propietario", FALSE, "duplicado")
           ELSE IF DOMAIN new_data = {}
           THEN /\ propietarios' = propietarios
                /\ last' = Called("actualizar_propietario", FALSE, "sin datos")
           ELSE /\ propietarios' = res.rows
                /\ last' = Called("actualizar_propietario", res.ret,
                                  IF res.ret THEN "" ELSE "no se pudo")

\* ---- actualizar_mascota
DigitValue(c) ==
    CASE c = "0" -> 0 [] c = "1" -> 1 [] c = "2" -> 2 [] c = "3" -> 3
      [] c = "4" -> 4 [] c = "5" -> 5 [] c = "6" -> 6 [] c = "7" -> 7
      [] c = "8" -> 8 [] c = "9" -> 9

IsDigits(s) ==
    /\ s # <<>>
    /\ \A i \in 1..Len(s) :
         s[i] \in {"0", "1", "2", "3", "4", "5", "6", "7", "8", "9"}

RECURSIVE Decimal(_)
Decimal(s) ==
    IF s = <<>> THEN 0
    ELSE 10 * Decimal(SubSeq(s, 1, Len(s) - 1)) + DigitValue(s[Len(s)])

\* int(edad_str): the set holding the integer, empty when int() raises
\* ValueError
int(s) ==
    IF IsDigits(s) THEN { Decimal(s) }
    ELSE IF s # <<>> /\ Head(s) = "-" /\ IsDigits(Tail(s))
         THEN { 0 - Decimal(Tail(s)) }
    ELSE {}

\* what the user may type at the "Nueva edad" prompt, after strip()
EdadTyped == { <<>>, <<"3">>, <<"-", "1">>, <<"x">> }

\* EdadValida without the "if edad < 0: raise ValueError" test
EdadValidaConSigno(edad_str) ==
    IF edad_str = <<>> THEN {} ELSE int(edad_str)

\* the age put into new_data: none for a blank entry, for an entry int()
\* rejects and for a negative one
EdadValida(edad_str) ==
    IF edad_str = <<>> THEN {} ELSE { e \in int(edad_str) : e >= 0 }

\* the new_data dictionary of actualizar_mascota; nuevo_propietario is the
\* result of the owner lookup, empty when the owner is not to be changed or
\* was not found
MascotaNewData(nombre, especie, raza, edad_str, nuevo_propietario) ==
    LET texts == NewData([nombre |-> nombre, especie |-> especie, raza |-> raza])
        ks == DOMAIN texts
              \cup (IF EdadValida(edad_str) # {} THEN {"edad"} ELSE {})
              \cup (IF nuevo_propietario # {} THEN {"id_propietario"} ELSE {})
    IN  [c \in ks |->
           IF c = "edad" THEN CHOOSE e \in EdadValida(edad_str) : TRUE
           ELSE IF c = "id_propietario"
                THEN (CHOOSE o \in nuevo_propietario : TRUE).id
           ELSE texts[c]]

\* the warning "Edad invalida. Se mantendra la edad actual." printed before
\* the closing message of actualizar_mascota
Aviso(edad_str) ==
    IF edad_str # <<>> /\ EdadValida(edad_str) = {}
    THEN "edad invalida; " ELSE ""

actualizar_mascota(id, nombre, especie, raza, edad_str, cambiar, nombre_nuevo_propietario) ==
    LET mascota == GetMascotaById(mascotas, propietarios, id)
        nuevo_propietario ==
            IF cambiar
            THEN GetPropietarioByNombre(propietarios, nombre_nuevo_propietario)
            ELSE {}
        new_data == MascotaNewData(nombre, especie, raza, edad_str, nuevo_propietario)
        aviso == Aviso(edad_str)
        res == UpdateMascota(mascotas, propietarios, id, new_data)
    IN  /\ UNCHANGED <<propietarios, consultas, seq>>
        /\ IF mascota = {}
           THEN /\ mascotas' = mascotas
                /\ last' = Called("actualizar_mascota", FALSE, "no encontrado")
           ELSE IF DOMAIN new_data = {}
           THEN /\ mascotas' = mascotas
                /\ last' = Called("actualizar_mascota", FALSE, aviso \o "sin datos")
           ELSE /\ mascotas' = res.rows
                /\ last' = Called("actualizar_mascota", res.ret,
                                  aviso \o (IF res.ret THEN "" ELSE "no se pudo"))

\* ---- actualizar_consulta
IsLeap(y) == y % 4 = 0 /\ (y % 100 # 0 \/ y % 400 = 0)

DaysInMonth(y, m) ==
    IF m = 2 THEN (IF IsLeap(y) THEN 29 ELSE 28)
    ELSE IF m \in {4, 6, 9, 11} THEN 30 ELSE 31

\* datetime.strptime(fecha_str, "%d-%m-%Y").date(): the set holding the date,
\* empty when strptime raises ValueError. %d and %m take one or two digits,
\* %Y exactly four; the day must exist in the month
ParseFecha(s) ==
    LET dashes == { i \in 1..Len(s) : s[i] = "-" }
    IN  IF Cardinality(dashes) # 2 THEN {}
        ELSE LET i == Min(dashes)
                 j == CHOOSE x \in dashes : x # i
                 dd == SubSeq(s, 1, i - 1)
                 mm == SubSeq(s, i + 1, j - 1)
                 yy == SubSeq(s, j + 1, Len(s))
             IN  IF /\ IsDigits(dd) /\ Len(dd) <= 2
                    /\ IsDigits(mm) /\ Len(mm) <= 2
                    /\ IsDigits(yy) /\ Len(yy) = 4
                 THEN LET d == Decimal(dd)
                          m == Decimal(mm)
                          y == Decimal(yy)
                      IN  IF /\ y >= 1 /\ m \in 1..12
                             /\ d >= 1 /\ d <= DaysInMonth(y, m)
                          THEN { [year |-> y, month |-> m, day |-> d] }
                          ELSE {}
                 ELSE {}

\* what the user may type at the "Nueva fecha" prompt, after strip()
FechaTyped ==
    { <<>>,
      <<"0", "5", "-", "0", "6", "-", "2", "0", "2", "5">>,
      <<"3", "1", "-", "0", "2", "-", "2", "0", "2", "5">>,
      <<"x">> }

\* the date put into new_data: none for a blank entry and for one strptime
\* rejects
FechaValida(fecha_str) ==
    IF fecha_str = <<>> THEN {} ELSE ParseFecha(fecha_str)

\* the new_data dictionary of actualizar_consulta
ConsultaNewData(fecha_str, motivo, diagnostico) ==
    LET texts == NewData([motivo |-> motivo, diagnostico |-> diagnostico])
        ks == DOMAIN texts
              \cup (IF FechaValida(fecha_str) # {} THEN {"fecha"} ELSE {})
    IN  [c \in ks |->
           IF c = "fecha" THEN CHOOSE f \in FechaValida(fecha_str) : TRUE
           ELSE texts[c]]

\* the warning "Formato de fecha incorrecto. Se mantendra la fecha actual."
\* printed before the closing message of actualizar_consulta
AvisoFecha(fecha_str) ==
    IF fecha_str # <<>> /\ FechaValida(fecha_str) = {}
    THEN "fecha invalida; " ELSE ""

actualizar_consulta(id, fecha_str, motivo, diagnostico) ==
    LET consulta == GetConsultaById(consultas, mascotas, id)
        new_data == ConsultaNewData(fecha_str, motivo, diagnostico)
        aviso == AvisoFecha(fecha_str)
        res == UpdateConsulta(consultas, mascotas, id, new_data)
    IN  /\ UNCHANGED <<propietarios, mascotas, seq>>
        /\ IF consulta = {}
           THEN /\ consultas' = consultas
                /\ last' = Called("actualizar_consulta", FALSE, "no encontrado")
           ELSE IF DOMAIN new_data = {}
           THEN /\ consultas' = consultas
                /\ last' = Called("actualizar_consulta", FALSE, aviso \o "sin datos")
           ELSE /\ consultas' = res.rows
                /\ last' = Called("actualizar_consulta", res.ret,
                                  aviso \o (IF res.ret THEN "" ELSE "no se pudo"))

\* ---- registrar_consulta
registrar_consulta(id, fecha, motivo, diagnostico) ==
    LET mascota == GetMascotaById(mascotas, propietarios, id)
        res == InsertConsulta(consultas, mascotas, seq.consultas,
                              fecha, motivo, diagnostico, id)
    IN  /\ UNCHANGED <<propietarios, mascotas>>
        /\ IF mascota = {}
           THEN /\ UNCHANGED <<consultas, seq>>
                /\ last' = Called("registrar_consulta", FALSE, "no encontrado")
           ELSE /\ res.ret => seq.consultas < MaxConsultas /\ Inserted < MaxFilas
                /\ consultas' = res.rows
                /\ seq' = IF res.ret
                          THEN [seq EXCEPT !.consultas = seq.consultas + 1]
                          ELSE seq
                /\ last' = Called("registrar_consulta", res.ret,
                                  IF res.ret THEN "" ELSE "no se pudo")

\* ---- eliminar_propietario, eliminar_mascota, eliminar_consulta
\* eliminar_propietario that deletes without waiting for the confirmation
eliminar_propietario_sin_confirmar(id, confirm) ==
    LET propietario == GetPropietarioById(propietarios, id)
        res == DeletePropietario(propietarios, id)
        pets == Cascade(mascotas, "id_propietario", {id})
    IN  /\ UNCHANGED seq
        /\ IF propietario = {}
           THEN /\ UNCHANGED <<propietarios, mascotas, consultas>>
                /\ last' = Called("eliminar_propietario", FALSE, "no encontrado")
           ELSE /\ propietarios' = res.rows
                /\ mascotas' = pets
                /\ consultas' = Cascade(consultas, "id_mascota",
                                         { m.id : m \in mascotas \ pets })
                /\ last' = Called("eliminar_propietario", res.ret,
                                  IF ~confirm THEN "cancelada"
                                  ELSE IF res.ret THEN "" ELSE "no se pudo")

eliminar_propietario(id, confirm) ==
    LET propietario == GetPropietarioById(propietarios, id)
        res == DeletePropietario(propietarios, id)
        pets == Cascade(mascotas, "id_propietario", {id})
    IN  /\ UNCHANGED seq
        /\ IF propietario = {}
           THEN /\ UNCHANGED <<propietarios, mascotas, consultas>>
                /\ last' = Called("eliminar_propietario", FALSE, "no encontrado")
           ELSE IF ~confirm
           THEN /\ UNCHANGED <<propietarios, mascotas, consultas>>
                /\ last' = Called("eliminar_propietario", FALSE, "cancelada")
           ELSE /\ propietarios' = res.rows
                /\ mascotas' = pets
                /\ consultas' = Cascade(consultas, "id_mascota",
                                         { m.id : m \in mascotas \ pets })
                /\ last' = Called("eliminar_propietario", res.ret,
                                  IF res.ret THEN "" ELSE "no se pudo")

eliminar_mascota(id, confirm) ==
    LET mascota == GetMascotaById(mascotas, propietarios, id)
        res == DeleteMascota(mascotas, id)
    IN  /\ UNCHANGED <<propietarios, seq>>
        /\ IF mascota = {}
           THEN /\ UNCHANGED <<mascotas, consultas>>
                /\ last' = Called("eliminar_mascota", FALSE, "no encontrado")
           ELSE IF ~confirm
           THEN /\ UNCHANGED <<mascotas, consultas>>
                /\ last' = Called("eliminar_mascota", FALSE, "cancelada")
           ELSE /\ mascotas' = res.rows
                /\ consultas' = Cascade(consultas, "id_mascota", {id})
                /\ last' = Called("eliminar_mascota", res.ret,
                                  IF res.ret THEN "" ELSE "no se pudo")

eliminar_consulta(id, confirm) ==
    LET consulta == GetConsultaById(consultas, mascotas, id)
        res == DeleteConsulta(consultas, id)
    IN  /\ UNCHANGED <<propietarios, mascotas, seq>>
        /\ IF consulta = {}
           THEN /\ consultas' = consultas
                /\ last' = Called("eliminar_consulta", FALSE, "no encontrado")
           ELSE IF ~confirm
           THEN /\ consultas' = consultas
                /\ last' = Called("eliminar_consulta", FALSE, "cancelada")
           ELSE /\ consultas' = res.rows
                /\ last' = Called("eliminar_consulta", res.ret,
                                  IF res.ret THEN "" ELSE "no se pudo")

\* the menu loop of main(): the options that write to the store (the listing
\* options and historia_clinica only read)
NextSistema ==
    \/ \E nm \in MascotaNombreValues, e \in EspecieValues, r \in RazaValues,
          entries \in EdadEntries, on \in NombreTyped, confirm \in BOOLEAN,
          n \in NombreValues, t \in TelefonoValues, d \in DireccionValues :
          registrar_mascota(nm, e, r, entries, on, confirm, n, t, d)
    \/ \E id \in MascotaIdsSistema, f \in FechaValues, m \in MotivoValues,
          k \in DiagnosticoValues : registrar_consulta(id, f, m, k)
    \/ \E id \in PropietarioIds, n \in NombreValues \cup {<<>>},
          t \in TelefonoValues \cup {<<>>}, d \in DireccionValues \cup {<<>>} :
          actualizar_propietario(id, n, t, d)
    \/ \E id \in MascotaIdsSistema, n \in MascotaNombreValues \cup {<<>>},
          er \in (EspecieValues \X RazaValues) \cup {<< <<>>, <<>> >>},
          a \in EdadTyped, cambiar \in BOOLEAN :
          \E on \in (IF cambiar THEN NombreTyped ELSE {<<>>}) :
             actualizar_mascota(id, n, er[1], er[2], a, cambiar, on)
    \/ \E id \in ConsultaIds, f \in FechaTyped, m \in MotivoValues \cup {<<>>},
          k \in DiagnosticoValues \cup {<<>>} :
          actualizar_consulta(id, f, m, k)
    \/ \E id \in PropietarioIds, confirm \in BOOLEAN :
          eliminar_propietario(id, confirm)
    \/ \E id \in MascotaIdsSistema, confirm \in BOOLEAN :
          eliminar_mascota(id, confirm)
    \/ \E id \in ConsultaIds, confirm \in BOOLEAN :
          eliminar_consulta(id, confirm)

SpecSistema == Init /\ [][NextSistema]_vars

\* the workflows that register and update pets and owners
NextRegistro ==
    \/ \E nm \in MascotaNombreValues, e \in EspecieValues, r \in RazaValues,
          entries \in EdadEntries, on \in NombreTyped, confirm \in BOOLEAN,
          n \in NombreValues, t \in TelefonoValues, d \in DireccionValues :
          registrar_mascota(nm, e, r, entries, on, confirm, n, t, d)
    \/ \E id \in PropietarioIds, n \in NombreValues \cup {<<>>},
          t \in TelefonoValues \cup {<<>>}, d \in DireccionValues \cup {<<>>} :
          actualizar_propietario(id, n, t, d)
    \/ \E id \in MascotaIdsSistema, n \in MascotaNombreValues \cup {<<>>},
          er \in (EspecieValues \X RazaValues) \cup {<< <<>>, <<>> >>},
          a \in EdadTyped, cambiar \in BOOLEAN :
          \E on \in (IF cambiar THEN NombreTyped ELSE {<<>>}) :
             actualizar_mascota(id, n, er[1], er[2], a, cambiar, on)

SpecRegistro == Init /\ [][NextRegistro]_vars

\* the workflows that register and delete, none that updates
NextEliminar ==
    \/ \E nm \in MascotaNombreValues, e \in EspecieValues, r \in RazaValues,
          entries \in EdadEntries, on \in NombreTyped, confirm \in BOOLEAN,
          n \in NombreValues, t \in TelefonoValues, d \in DireccionValues :
          registrar_mascota(nm, e, r, entries, on, confirm, n, t, d)
    \/ \E id \in MascotaIdsSistema, f \in FechaValues, m \in MotivoValues,
          k \in DiagnosticoValues : registrar_consulta(id, f, m, k)
    \/ \E id \in PropietarioIds, confirm \in BOOLEAN :
          eliminar_propietario(id, confirm)
    \/ \E id \in MascotaIdsSistema, confirm \in BOOLEAN :
          eliminar_mascota(id, confirm)
    \/ \E id \in ConsultaIds, confirm \in BOOLEAN :
          eliminar_consulta(id, confirm)

SpecEliminar == Init /\ [][NextEliminar]_vars

\* ================================================================== claims
Rows == Cardinality(propietarios) + Cardinality(mascotas) + Cardinality(consultas)

MascotasDe(id) == { m \in mascotas : m.id_propietario = id }

ConsultasDe(pets) == { c \in consultas : c.id_mascota \in { m.id : m \in pets } }

EmptyData == [c \in {} |-> <<>>]

\* C1: delete_propietario(id) on a stored owner removes the owner row, every
\* pet row of that owner and every visit row of those pets, 1 + N + N*M rows
\* in total.
C1_DeleteCascades ==
    [][\A id \in PropietarioIds :
         (delete_propietario(id) /\ GetPropietarioById(propietarios, id) # {})
         => /\ GetPropietarioById(propietarios', id) = {}
            /\ mascotas' \cap MascotasDe(id) = {}
            /\ consultas' \cap ConsultasDe(MascotasDe(id)) = {}
            /\ Rows' = Rows - (1 + Cardinality(MascotasDe(id))
                                 + Cardinality(ConsultasDe(MascotasDe(id))))]_vars

\* C2: once delete_propietario(id) has returned true, get_mascota_by_id finds
\* none of the owner's former pets and get_consulta_by_id none of the visits
\* of those pets.
C2_DeletedNotFound ==
    [][\A id \in PropietarioIds :
         (delete_propietario(id) /\ last'.ret)
         => /\ \A m \in MascotasDe(id) :
                  GetMascotaById(mascotas', propietarios', m.id) = {}
            /\ \A c \in ConsultasDe(MascotasDe(id)) :
                  GetConsultaById(consultas', mascotas', c.id) = {}]_vars

\* C3: delete_mascota(id) on a stored pet removes the pet row and every visit
\* row of that pet: afterwards no stored visit references the pet.
C3_DeleteMascotaCascades ==
    [][\A id \in MascotaIds :
         (delete_mascota(id) /\ last'.ret)
         => /\ \A m \in mascotas' : m.id # id
            /\ \A c \in consultas' : c.id_mascota # id]_vars

\* C4: referential integrity: every stored pet references a stored owner and
\* every stored visit references a stored pet.
C4_ReferentialIntegrity ==
    /\ \A m \in mascotas : \E p \in propietarios : p.id = m.id_propietario
    /\ \A c \in consultas : \E m \in mascotas : m.id = c.id_mascota

\* C5: insert_propietario with the name of a stored owner returns no record,
\* assigns no id and leaves the owner rows as they were.
C5_DuplicateInsertFails ==
    [][last'.op = "insert_propietario" =>
         \A n \in NombreValues, t \in TelefonoValues, d \in DireccionValues :
           (insert_propietario(n, t, d) /\ \E r \in propietarios : r.nombre = n)
           => /\ ~last'.ret
              /\ propietarios' = propietarios
              /\ seq' = seq]_vars

C5_Witness ==
    /\ last = Called("insert_propietario", FALSE, "UNIQUE")
    /\ propietarios # {}

\* C6: no two stored owner rows have the same name, and an update_propietario
\* that would give a row the name of another row returns false and changes
\* no row.
C6_NombreUnico ==
    /\ [](/\ \A r1, r2 \in propietarios : r1 # r2 => r1.nombre # r2.nombre
          /\ \A id \in PropietarioIds, data \in PropietarioData :
               ( /\ "nombre" \in DOMAIN data
                 /\ \E r \in propietarios : r.id = id
                 /\ \E o \in propietarios : o.id # id /\ o.nombre = data.nombre )
               => LET res == UpdatePropietario(propietarios, id, data)
                  IN  ~res.ret /\ res.rows = propietarios)
    /\ [][(last'.op = "update_propietario" /\ ~last'.ret)
            => propietarios' = propietarios]_vars

C6_Witness ==
    /\ last = Called("update_propietario", FALSE, "UNIQUE")
    /\ Cardinality(propietarios) = 2

\* C8: update_propietario, update_mascota and update_consulta with an empty
\* mapping return false and leave every row unchanged, whether or not the id
\* is stored.
C8_EmptyUpdateNoOp ==
    /\ [](/\ \A id \in PropietarioIds :
               LET res == UpdatePropietario(propietarios, id, EmptyData)
               IN  ~res.ret /\ res.rows = propietarios
          /\ \A id \in MascotaIds :
               LET res == UpdateMascota(mascotas, propietarios, id, EmptyData)
               IN  ~res.ret /\ res.rows = mascotas
          /\ \A id \in ConsultaIds :
               LET res == UpdateConsulta(consultas, mascotas, id, EmptyData)
               IN  ~res.ret /\ res.rows = consultas)
    /\ [][(last'.op \in {"update_propietario", "update_mascota", "update_consulta"}
            /\ last'.err = "syntax")
           => ~last'.ret /\ UNCHANGED <<propietarios, mascotas, consultas, seq>>]_vars

C8_Witness ==
    /\ last.op = "update_mascota"
    /\ last.err = "syntax"
    /\ mascotas # {}

\* new holds the rows of old, the row with this id changed in exactly the
\* fields of vals and in no other
ExactlyUpdated(old, new, id, vals) ==
    /\ Cardinality(new) = Cardinality(old)
    /\ \A r \in old :
         IF r.id # id THEN r \in new
         ELSE \E r2 \in new :
                \A c \in DOMAIN r :
                  r2[c] = IF c \in DOMAIN vals THEN vals[c] ELSE r[c]

\* the outcome of an update with a non-empty mapping: true and exactly the
\* supplied fields of the row changed, or false and nothing changed; false
\* when no row has the id
UpdateFrame(old, res, id, vals) ==
    /\ IF res.ret THEN ExactlyUpdated(old, res.rows, id, vals)
                  ELSE res.rows = old
    /\ (\A r \in old : r.id # id) => ~res.ret

\* C9: an update with a non-empty mapping that returns true changes exactly
\* the supplied fields of the row with that id and nothing else in any table;
\* it returns false and changes nothing when no row has the id.
C9_UpdateFrame ==
    /\ [](/\ \A id \in PropietarioIds, data \in PropietarioData \ {EmptyData} :
               UpdateFrame(propietarios,
                           UpdatePropietario(propietarios, id, data), id, data)
          /\ \A id \in MascotaIds, data \in MascotaData \ {EmptyData} :
               UpdateFrame(mascotas,
                           UpdateMascota(mascotas, propietarios, id, data), id, data)
          /\ \A id \in ConsultaIds, data \in ConsultaData \ {EmptyData} :
               UpdateFrame(consultas,
                           UpdateConsulta(consultas, mascotas, id, data), id,
                           [c \in DOMAIN data |->
                              IF c = "fecha"
                              THEN <<data[c].year, data[c].month, data[c].day>>
                              ELSE data[c]]))
    /\ [][/\ (last'.op = "update_propietario"
               => /\ UNCHANGED <<mascotas, consultas, seq>>
                  /\ last'.ret \/ propietarios' = propietarios)
          /\ (last'.op = "update_mascota"
               => /\ UNCHANGED <<propietarios, consultas, seq>>
                  /\ last'.ret \/ mascotas' = mascotas)
          /\ (last'.op = "update_consulta"
               => /\ UNCHANGED <<propietarios, mascotas, seq>>
                  /\ last'.ret \/ consultas' = consultas)]_vars

C9_Witness ==
    /\ last = Called("update_propietario", TRUE, "")
    /\ Cardinality(propietarios) = 2
    /\ mascotas # {}

\* C10: get_propietario_by_nombre(name) returns an owner only if the owner's
\* stored name equals name, and not-found when no stored name equals it.
C10_ExactMatch ==
    \A n \in NombreTyped :
      /\ \A r \in GetPropietarioByNombre(propietarios, n) : r.nombre = n
      /\ (\A r \in propietarios : r.nombre # n)
         => GetPropietarioByNombre(propietarios, n) = {}

\* C7: in actualizar_propietario on a stored owner, a new name that is the
\* name of a different owner makes the workflow stop before update_propietario
\* with no owner row changed, and a new name that no other owner has is never
\* rejected as a collision.
C7_RenameCollision ==
    [][last'.op = "actualizar_propietario" =>
         \A id \in PropietarioIds, n \in NombreTyped \ {<<>>},
            t \in TelefonoValues \cup {<<>>}, d \in DireccionValues \cup {<<>>} :
           (actualizar_propietario(id, n, t, d)
            /\ GetPropietarioById(propietarios, id) # {})
           => ( /\ (last'.err = "duplicado")
                   <=> (\E o \in propietarios : o.id # id /\ o.nombre = n)
                /\ (last'.err = "duplicado" => propietarios' = propietarios) )]_vars

\* C11: in registrar_mascota, when the lookup of the entered owner name finds
\* no owner and the user declines to register one, the workflow ends with no
\* owner row and no pet row inserted: owners, pets and visits are unchanged.
C11_DeclineInsertsNothing ==
    /\ [](\A on \in NombreTyped, n \in NombreValues, t \in TelefonoValues,
             d \in DireccionValues :
             GetPropietarioByNombre(propietarios, on) = {}
             => GetPropietarioOrCreate(propietarios, seq.propietarios, on, FALSE,
                                       n, t, d)
                  = [rows |-> propietarios, n |-> seq.propietarios, owner |-> {}])
    /\ [][(last'.op = "registrar_mascota" /\ last'.err = "cancelada")
           => UNCHANGED <<propietarios, mascotas, consultas, seq>>]_vars

C11_Witness ==
    /\ last = Called("registrar_mascota", FALSE, "cancelada")
    /\ propietarios # {}
    /\ mascotas # {}

\* C12: in actualizar_mascota on a pet the workflow found, when the user asks
\* to change the owner and no stored owner has the entered name, the pet keeps
\* its id_propietario while every other field with a valid non-blank entry is
\* updated; when nothing but the failed reassignment was entered, no update
\* is issued and no row changes.
C12_FailedReassignment ==
    [][last'.op = "actualizar_mascota" =>
         \A id \in MascotaIdsSistema, n \in MascotaNombreValues \cup {<<>>},
            er \in (EspecieValues \X RazaValues) \cup {<< <<>>, <<>> >>},
            a \in EdadTyped, on \in NombreTyped :
           ( /\ actualizar_mascota(id, n, er[1], er[2], a, TRUE, on)
             /\ GetMascotaById(mascotas, propietarios, id) # {}
             /\ \A o \in propietarios : o.nombre # on )
           => \A m \in mascotas : m.id = id =>
                IF n = <<>> /\ er[1] = <<>> /\ er[2] = <<>> /\ EdadValida(a) = {}
                THEN mascotas' = mascotas /\ ~last'.ret
                ELSE \E m2 \in mascotas' :
                       /\ m2.id = id
                       /\ m2.id_propietario = m.id_propietario
                       /\ m2.nombre = (IF n = <<>> THEN m.nombre ELSE n)
                       /\ m2.especie = (IF er[1] = <<>> THEN m.especie ELSE er[1])
                       /\ m2.raza = (IF er[2] = <<>> THEN m.raza ELSE er[2])
                       /\ m2.edad \in (IF EdadValida(a) = {} THEN {m.edad}
                                        ELSE EdadValida(a))]_vars

\* C13: eliminar_propietario, eliminar_mascota and eliminar_consulta call the
\* delete operation only after the user confirmed: when the confirmation is
\* denied or the entered id is not found, no row of any table is inserted,
\* changed or removed.
C13_DeleteNeedsConfirmation ==
    [][/\ \A id \in PropietarioIds, confirm \in BOOLEAN :
            ( /\ eliminar_propietario(id, confirm)
              /\ ~confirm \/ GetPropietarioById(propietarios, id) = {} )
            => UNCHANGED <<propietarios, mascotas, consultas, seq>>
       /\ \A id \in MascotaIdsSistema, confirm \in BOOLEAN :
            ( /\ eliminar_mascota(id, confirm)
              /\ ~confirm \/ GetMascotaById(mascotas, propietarios, id) = {} )
            => UNCHANGED <<propietarios, mascotas, consultas, seq>>
       /\ \A id \in ConsultaIds, confirm \in BOOLEAN :
            ( /\ eliminar_consulta(id, confirm)
              /\ ~confirm \/ GetConsultaById(consultas, mascotas, id) = {} )
            => UNCHANGED <<propietarios, mascotas, consultas, seq>>
       /\ ( /\ last'.op \in {"eliminar_propietario", "eliminar_mascota",
                              "eliminar_consulta"}
            /\ last'.err \in {"cancelada", "no encontrado"} )
          => UNCHANGED <<propietarios, mascotas, consultas, seq>>]_vars

C13_Witness ==
    /\ last = Called("eliminar_propietario", FALSE, "cancelada")
    /\ mascotas # {}
    /\ consultas # {}

\* C14: in every state reached through the workflows from the empty store,
\* every stored pet has an age >= 0: a negative age typed at registration is
\* never stored, and a negative or non-numeric age typed in actualizar_mascota
\* leaves the stored age of every pet unchanged.
C14_EdadNoNegativa ==
    /\ [](/\ \A m \in mascotas : m.edad >= 0
          /\ \A entries \in EdadEntries : FirstNonNegative(entries) >= 0
          /\ \A a \in EdadTyped : \A e \in EdadValida(a) : e >= 0)
    /\ [][(last'.op = "actualizar_mascota"
            /\ last'.err \in {"edad invalida; ", "edad invalida; sin datos",
                              "edad invalida; no se pudo"})
           => \A m \in mascotas :
                \E m2 \in mascotas' : m2.id = m.id /\ m2.edad = m.edad]_vars

C14_Witness ==
    /\ last = Called("actualizar_mascota", TRUE, "edad invalida; ")
    /\ \E m \in mascotas : m.edad = 3

\* the ids stored in a table
Ids(rows) == { r.id : r \in rows }

\* the pet records the two reads return
Devueltas ==
    GetAllMascotas(mascotas, propietarios)
    \cup UNION { GetMascotaById(mascotas, propietarios, id) : id \in MascotaIds }

\* the pets left behind by the delete_propietario call that has just returned
\* true: the deleted id is the only id the owners table handed out and no
\* longer stores, so these pets were returned with that owner until the call
HuerfanasDelUltimoBorrado ==
    IF /\ last = Called("delete_propietario", TRUE, "")
       /\ Cardinality((1..seq.propietarios) \ Ids(propietarios)) = 1
    THEN { m \in mascotas : /\ m.id_propietario <= seq.propietarios
                            /\ m.id_propietario \notin Ids(propietarios) }
    ELSE {}

\* C15: every pet returned by get_mascota_by_id or get_all_mascotas carries
\* the id of a stored owner and that owner's current name; from the moment
\* that owner is deleted neither read returns the pet any more: not in the
\* state the delete leaves, and not after the operation that follows it.
C15_MascotaConDueno ==
    /\ [](/\ \A m \in Devueltas :
               \E p \in propietarios :
                  p.id = m.propietario_id /\ p.nombre = m.propietario_nombre
          /\ \A m \in HuerfanasDelUltimoBorrado :
               \A d \in Devueltas : d.id # m.id)
    /\ [][\A m \in HuerfanasDelUltimoBorrado :
            \A d \in Devueltas' : d.id # m.id]_vars

\* C16: in registrar_mascota, when the first owner lookup finds nothing and the
\* user accepts to register an owner, the name typed at the creation prompt is
\* checked again: if a stored owner has that name no owner row is inserted and
\* the new pet goes to that owner, otherwise exactly one owner row with that
\* name is inserted and the new pet goes to it.  Every run inserts at most one
\* owner and at most one pet, and a pet only with the id of an owner stored
\* at that moment.
C16_RecheckBeforeInsert ==
    [][last'.op = "registrar_mascota" =>
         /\ Cardinality(propietarios' \ propietarios) <= 1
         /\ Cardinality(mascotas' \ mascotas) <= 1
         /\ propietarios \subseteq propietarios' /\ mascotas \subseteq mascotas'
         /\ \A m \in mascotas' \ mascotas :
              \E o \in propietarios' : o.id = m.id_propietario
         /\ \A nm \in MascotaNombreValues, e \in EspecieValues, r \in RazaValues,
               entries \in EdadEntries, on \in NombreTyped, n \in NombreValues,
               t \in TelefonoValues, d \in DireccionValues :
              ( /\ registrar_mascota(nm, e, r, entries, on, TRUE, n, t, d)
                /\ GetPropietarioByNombre(propietarios, on) = {} )
              => IF \E o \in propietarios : o.nombre = n
                 THEN /\ propietarios' = propietarios
                      /\ \A m \in mascotas' \ mascotas :
                           \E o \in propietarios :
                              o.nombre = n /\ o.id = m.id_propietario
                 ELSE /\ \E o \in propietarios' \ propietarios : o.nombre = n
                      /\ \A m \in mascotas' \ mascotas :
                           \E o \in propietarios' \ propietarios :
                              o.id = m.id_propietario]_vars

\* C17: ids are never reused: in each table every insert assigns an id larger
\* than every id the table assigned before, also after rows were deleted; a
\* returned pet carries the owner id written to its row, which only
\* insert_mascota and update_mascota write, and a pet whose owner was deleted
\* is not returned under an owner created later.
C17_IdsNeverReused ==
    /\ [](/\ \A r \in propietarios : r.id <= seq.propietarios
          /\ \A r \in mascotas : r.id <= seq.mascotas
          /\ \A r \in consultas : r.id <= seq.consultas
          /\ \A m \in Devueltas :
               \E r \in mascotas : r.id = m.id /\ r.id_propietario = m.propietario_id)
    /\ [][/\ \A id \in Ids(propietarios') \ Ids(propietarios) :
               id > seq.propietarios
          /\ \A id \in Ids(mascotas') \ Ids(mascotas) : id > seq.mascotas
          /\ \A id \in Ids(consultas') \ Ids(consultas) : id > seq.consultas
          /\ seq'.propietarios >= seq.propietarios
          /\ seq'.mascotas >= seq.mascotas
          /\ seq'.consultas >= seq.consultas
          /\ \A m \in mascotas, m2 \in mascotas' :
               (m2.id = m.id /\ m2.id_propietario # m.id_propietario)
               => last'.op = "update_mascota"
          /\ \A m \in mascotas' :
               ( /\ last'.op = "insert_propietario"
                 /\ m.id_propietario <= seq.propietarios
                 /\ m.id_propietario \notin Ids(propietarios) )
               => \A d \in Devueltas' : d.id # m.id]_vars

C17_Witness ==
    /\ last = Called("insert_propietario", TRUE, "")
    /\ Ids(propietarios) = {2}
    /\ \E m \in mascotas : m.id_propietario = 1
    /\ Devueltas = {}

\* C18: reads and writes by id agree: delete_mascota(id) and update_mascota
\* with a non-empty mapping of valid values return true exactly when
\* get_mascota_by_id(id) returns a record, and delete_consulta(id) and
\* update_consulta with such a mapping exactly when get_consulta_by_id(id)
\* returns a record.
C18_ReadsAgreeWithWrites ==
    /\ \A id \in MascotaIds :
         LET found == GetMascotaById(mascotas, propietarios, id) # {}
         IN  /\ DeleteMascota(mascotas, id).ret <=> found
             /\ \A data \in MascotaData \ {EmptyData} :
                  ("id_propietario" \in DOMAIN data
                     => data.id_propietario \in Ids(propietarios))
                  => (UpdateMascota(mascotas, propietarios, id, data).ret <=> found)
    /\ \A id \in ConsultaIds :
         LET found == GetConsultaById(consultas, mascotas, id) # {}
         IN  /\ DeleteConsulta(consultas, id).ret <=> found
             /\ \A data \in ConsultaData \ {EmptyData} :
                  UpdateConsulta(consultas, mascotas, id, data).ret <=> found

====
